---- MODULE Spec2Model ----
(***************************************************************************)
(* Model of the PixelConvert server (src/server.js): one conversion        *)
(* request travelling through multer's disk storage and one of the five    *)
(* conversion route handlers (zip, pdf, word, gif, image/:format).         *)
(*                                                                         *)
(* A handler runs synchronously between two awaits; every label of pc is   *)
(* a position inside a handler.  Library calls whose outcome depends on    *)
(* the environment (fs.readFileSync, fs.unlinkSync, sharp) succeed or      *)
(* throw nondeterministically.                                             *)
(***************************************************************************)
EXTENDS Integers, Sequences, FiniteSets, TLC

\* Largest number of files in the modelled request.
MaxFiles == 3

\* Number of requests served concurrently, and the largest number of
\* files of each of them.
NumRequests == 2
MaxConcFiles == 2

\* Cap of the shared nanoid counter in the concurrent model.
MaxIds == 6

Requests == 1..NumRequests

\* Original names of uploaded files, as path.parse splits them.
Names ==
  { [base |-> "a", ext |-> "jpg"],
    [base |-> "a", ext |-> "png"],
    [base |-> "b", ext |-> "jpg"] }

\* Values of the :format route parameter sent by clients.
Formats == {"png", "PNG", "Jpeg", "exe"}

Routes == {"zip", "pdf", "word", "gif", "image"}

\* limits.files of multer (server.js:42)
filesLimit == 10

\* server.js:281
allowedFormats == {"jpeg", "png", "webp", "gif", "bmp", "tiff"}

\* String.prototype.toLowerCase on the modelled format strings.
toLowerCase(s) ==
  CASE s = "PNG" -> "png"
    [] s = "Jpeg" -> "jpeg"
    [] OTHER -> s

NoName == [base |-> "", ext |-> ""]
NoPath == [id |-> 0, name |-> NoName]

Range(s) == { s[k] : k \in 1..Len(s) }

\* All sequences over S of length 0..n.
SeqsUpTo(S, n) == UNION { [1..k -> S] : k \in 0..n }

VARIABLES
  pc,              \* position of the request inside the server
  route,           \* which handler serves the request
  format,          \* req.params.format (image route)
  files,           \* req.files as stored by multer
  disk,            \* the uploads directory: path -> bytes
  nanoids,         \* number of identifiers nanoid() has handed out
  i,               \* index of the per-file loop
  j,               \* index of the loop over convertedFiles
  filePaths,       \* the handler's filePaths array
  zip,             \* the JSZip object: ordered entries
  paragraphs,      \* word route: paragraphs array
  pages,           \* pdf route: pages of doc
  convertedFiles,  \* image route: convertedFiles array
  buffer,          \* zipBuffer / buffer / gifBuffer
  res,             \* the express response
  pendingSendFile, \* path an unfinished res.sendFile still has to read
  cleanupCalls,    \* number of calls of cleanupFiles in this request
  cleanupArg,      \* argument of the last call of cleanupFiles
  cleanupThrew,    \* cleanupFiles threw out of its forEach
  unlinkAttempts,  \* paths fs.unlinkSync was called on, in order
  readFailed,      \* input indices whose fs.readFileSync threw
  decodeFailed,    \* input indices whose sharp / doc.image step threw
  multerError,     \* code of the MulterError that ended the upload, or ""
  unhandled        \* an exception escaped a handler or listener

\* State of the model of concurrent requests (SpecConc): one entry per
\* request, the uploads directory and nanoid being shared.
VARIABLES
  cpc,             \* request -> position inside the server
  croute,          \* request -> route
  cnames,          \* request -> original names of the files it uploads
  cfiles,          \* request -> paths of req.files stored so far
  cconv,           \* request -> paths of its convertedFiles
  ci,              \* request -> index of the conversion loop
  cpending,        \* request -> path its unfinished res.sendFile reads
  cdisk,           \* the shared uploads directory: path -> writer
  cids,            \* identifiers nanoid() has handed out to all requests
  created,         \* path -> request that first wrote it
  foreignCalls     \* file-system calls made on another request's file

concVars ==
  << cpc, croute, cnames, cfiles, cconv, ci, cpending, cdisk, cids, created,
     foreignCalls >>

\* Variables of the single-request model.
mainVars ==
  << pc, route, format, files, disk, nanoids, i, j, filePaths, zip,
     paragraphs, pages, convertedFiles, buffer, res, pendingSendFile,
     cleanupCalls, cleanupArg, cleanupThrew, unlinkAttempts, readFailed,
     decodeFailed, multerError, unhandled >>

vars == << mainVars, concVars >>

\* Variables only the upload changes.
reqVars == << route, format, files, multerError >>

----------------------------------------------------------------------------
(* The express response.                                                   *)

\* statusCode / contentType: fields of res before anything is written.
\* wireStatus / wireType / body / error: what was written to the client
\* (wireStatus = 0: nothing yet).  calls: response-writing calls made.
NewResponse ==
  [ statusCode  |-> 200,
    contentType |-> << >>,
    headersSent |-> FALSE,
    ended       |-> FALSE,
    wireStatus  |-> 0,
    wireType    |-> << >>,
    body        |-> << >>,
    error       |-> "",
    calls       |-> << >> ]

JsonCall(code) == IF code = 400 THEN "json400" ELSE "json500"

\* Content-Type values, as << type, subtype >>.
JsonMime == << "application", "json" >>
ZipType == << "application", "zip" >>
PdfType == << "application", "pdf" >>
GifType == << "image", "gif" >>

\* The Content-Type res.json leaves on the response: express sets
\* application/json only when no Content-Type header was set before.
JsonType(r) ==
  IF r.contentType = << >> THEN JsonMime ELSE r.contentType

\* res.status(code).json({ error: msg }).  Once the headers are sent,
\* res.json throws (ERR_HTTP_HEADERS_SENT) and nothing reaches the client.
Json(r, code, msg) ==
  IF r.headersSent
  THEN [r EXCEPT !.statusCode = code,
                 !.calls = Append(@, JsonCall(code))]
  ELSE [r EXCEPT !.statusCode = code,
                 !.contentType = JsonType(r),
                 !.headersSent = TRUE,
                 !.ended = TRUE,
                 !.wireStatus = code,
                 !.wireType = JsonType(r),
                 !.error = msg,
                 !.calls = Append(@, JsonCall(code))]

\* res.setHeader("Content-Type", type); res.send(buf)
Send(r, type, buf) ==
  [r EXCEPT !.contentType = type,
            !.headersSent = TRUE,
            !.ended = TRUE,
            !.wireStatus = r.statusCode,
            !.wireType = type,
            !.body = buf,
            !.calls = Append(@, "send")]

\* The error-handling middleware for an error that is no MulterError.
ErrorMiddleware(r, msg) == Json(r, 500, msg)

\* The error-handling middleware for a MulterError with the given code.
MulterErrorMiddleware(r, code) ==
  IF code = "LIMIT_FILE_SIZE"
  THEN Json(r, 400, "File too large. Maximum size is 50MB.")
  ELSE IF code = "LIMIT_FILE_COUNT"
       THEN Json(r, 400, "Too many files. Maximum is 10 files.")
       ELSE Json(r, 500, code)

----------------------------------------------------------------------------
(* Helpers.                                                                *)

Remove(d, p) == [q \in DOMAIN d \ {p} |-> d[q]]

Store(d, p, bytes) == [q \in DOMAIN d \cup {p} |-> IF q = p THEN bytes ELSE d[q]]

\* cleanupFiles(filePaths), run on disk d.  failAt is the position of the
\* list whose fs.unlinkSync throws (0: none does).  The exception leaves
\* forEach, so the paths behind it are not visited.
RECURSIVE cleanupFiles(_, _, _)
cleanupFiles(d, paths, failAt) ==
  IF paths = << >>
  THEN [disk |-> d, attempts |-> << >>, threw |-> FALSE]
  ELSE LET filePath == Head(paths) IN
       IF filePath \in DOMAIN d
       THEN IF failAt = 1
            THEN [disk |-> d, attempts |-> << filePath >>, threw |-> TRUE]
            ELSE LET rest == cleanupFiles(Remove(d, filePath), Tail(paths),
                                          failAt - 1)
                 IN  [rest EXCEPT !.attempts = << filePath >> \o @]
       ELSE cleanupFiles(d, Tail(paths), failAt - 1)

\* JSZip's zip.file(name, data): files are kept in an object keyed by
\* name, so a second file of the same name replaces the first.
ZipFile(z, name, data) ==
  IF \E k \in 1..Len(z) : z[k].name = name
  THEN [k \in 1..Len(z) |->
          IF z[k].name = name THEN [name |-> name, data |-> data] ELSE z[k]]
  ELSE Append(z, [name |-> name, data |-> data])

\* A filename without the nanoid prefix: the original name alone.
uniqueNameNoId(id, originalname) == [id |-> 0, name |-> originalname]

\* filename of multer.diskStorage: `${nanoid()}-${file.originalname}`,
\* id being the value nanoid() returns.
uniqueName(id, originalname) == [id |-> id, name |-> originalname]

\* The bytes multer stores for the k-th file of the request.
UploadedBytes(k) == [src |-> k, enc |-> "original"]

----------------------------------------------------------------------------
Init ==
  /\ pc = "idle"
  /\ route = "none"
  /\ format = ""
  /\ files = << >>
  /\ disk = << >>
  /\ nanoids = 0
  /\ i = 1
  /\ j = 1
  /\ filePaths = << >>
  /\ zip = << >>
  /\ paragraphs = << >>
  /\ pages = << >>
  /\ convertedFiles = << >>
  /\ buffer = << >>
  /\ res = NewResponse
  /\ pendingSendFile = NoPath
  /\ cleanupCalls = 0
  /\ cleanupArg = << >>
  /\ cleanupThrew = FALSE
  /\ unlinkAttempts = << >>
  /\ readFailed = {}
  /\ decodeFailed = {}
  /\ multerError = ""
  /\ unhandled = FALSE
  /\ cpc = [r \in Requests |-> "idle"]
  /\ croute = [r \in Requests |-> "none"]
  /\ cnames = [r \in Requests |-> << >>]
  /\ cfiles = [r \in Requests |-> << >>]
  /\ cconv = [r \in Requests |-> << >>]
  /\ ci = [r \in Requests |-> 1]
  /\ cpending = [r \in Requests |-> NoPath]
  /\ cdisk = << >>
  /\ cids = 0
  /\ created = << >>
  /\ foreignCalls = {}

\* upload.array("photos", 10) with multer.diskStorage: every file is
\* written to uploads/ as `${nanoid()}-${file.originalname}`, then the
\* route handler is entered.
Upload ==
  /\ pc = "idle"
  /\ \E r \in Routes, names \in SeqsUpTo(Names, MaxFiles) :
       \E fmt \in (IF r = "image" THEN Formats ELSE {""}) :
         LET stored == [k \in 1..Len(names) |->
                          [originalname |-> names[k],
                           path |-> uniqueName(nanoids + k, names[k])]]
         IN  /\ Len(names) <= filesLimit
             /\ route' = r
             /\ format' = fmt
             /\ files' = stored
             /\ disk' = [p \in { stored[k].path : k \in 1..Len(names) } |->
                           UploadedBytes(p.id - nanoids)]
             /\ nanoids' = nanoids + Len(names)
             /\ pc' = r
  /\ UNCHANGED << concVars, i, j, filePaths, zip, paragraphs, pages, convertedFiles,
                  buffer, res, pendingSendFile, cleanupCalls, cleanupArg,
                  cleanupThrew, unlinkAttempts, readFailed, decodeFailed,
                  multerError, unhandled >>

\* A request with one file more than limits.files allows.
TooManyNames == [k \in 1..(filesLimit + 1) |-> [base |-> "a", ext |-> "jpg"]]

\* upload.array on a request with more than limits.files files: multer
\* stores the first filesLimit files, fails with the MulterError
\* LIMIT_FILE_COUNT at the next one, removes what it stored and passes the
\* error to the error-handling middleware.  No route handler is entered.
UploadTooMany ==
  /\ pc = "idle"
  /\ Len(TooManyNames) > filesLimit
  /\ \E r \in Routes :
       \E fmt \in (IF r = "image" THEN Formats ELSE {""}) :
         /\ route' = r
         /\ format' = fmt
  /\ multerError' = "LIMIT_FILE_COUNT"
  /\ nanoids' = nanoids + filesLimit
  /\ res' = MulterErrorMiddleware(res, "LIMIT_FILE_COUNT")
  /\ pc' = "done"
  /\ UNCHANGED << concVars, files, disk, i, j, filePaths, zip, paragraphs, pages,
                  convertedFiles, buffer, pendingSendFile, cleanupCalls,
                  cleanupArg, cleanupThrew, unlinkAttempts, readFailed,
                  decodeFailed, unhandled >>

\* A catch block of a handler: res.status(500).json({ error }).  When the
\* response was already sent, res.json throws inside the catch block and
\* the handler's promise is rejected.
Catch(msg) ==
  /\ res' = Json(res, 500, msg)
  /\ unhandled' = (unhandled \/ res.headersSent)
  /\ pc' = "done"

\* A handler without the empty check: it goes on and sends an empty
\* artifact.
NoFilesUnchecked(at) ==
  /\ pc = at
  /\ Len(files) = 0
  /\ res' = Send(res, ZipType, << >>)
  /\ pc' = "done"
  /\ UNCHANGED << concVars, reqVars, disk, nanoids, i, j, filePaths, zip, paragraphs,
                  pages, convertedFiles, buffer, pendingSendFile,
                  cleanupCalls, cleanupArg, cleanupThrew, unlinkAttempts,
                  readFailed, decodeFailed, unhandled >>

\* `if (!req.files || req.files.length === 0) return res.status(400)...`
NoFiles(at) ==
  /\ pc = at
  /\ Len(files) = 0
  /\ res' = Json(res, 400, "No files uploaded")
  /\ pc' = "done"
  /\ UNCHANGED << concVars, reqVars, disk, nanoids, i, j, filePaths, zip, paragraphs,
                  pages, convertedFiles, buffer, pendingSendFile,
                  cleanupCalls, cleanupArg, cleanupThrew, unlinkAttempts,
                  readFailed, decodeFailed, unhandled >>

\* `cleanupFiles(paths)` as the last statement of a try block whose
\* response was written at `then`; an exception goes to the catch block.
Cleanup(at, paths, then) ==
  /\ pc = at
  /\ \E failAt \in 0..Len(paths) :
       LET c == cleanupFiles(disk, paths, failAt) IN
       /\ disk' = c.disk
       /\ unlinkAttempts' = unlinkAttempts \o c.attempts
       /\ cleanupThrew' = c.threw
       /\ IF c.threw
          THEN Catch("unlink failed")
          ELSE /\ pc' = then
               /\ UNCHANGED << res, unhandled >>
  /\ cleanupCalls' = cleanupCalls + 1
  /\ cleanupArg' = paths
  /\ UNCHANGED << concVars, reqVars, nanoids, i, j, filePaths, zip, paragraphs, pages,
                  convertedFiles, buffer, pendingSendFile, readFailed,
                  decodeFailed >>

----------------------------------------------------------------------------
(* POST /convert/zip                                                       *)

ZipNoFiles == NoFiles("zip")

\* One iteration of req.files.forEach: readFileSync, zip.file, push.
ZipRead ==
  /\ pc = "zip"
  /\ i <= Len(files)
  /\ \E ok \in BOOLEAN :
       IF ok
       THEN /\ zip' = ZipFile(zip, files[i].originalname, disk[files[i].path])
            /\ filePaths' = Append(filePaths, files[i].path)
            /\ i' = i + 1
            /\ UNCHANGED << pc, res, unhandled, readFailed >>
       ELSE /\ readFailed' = readFailed \cup {i}
            /\ Catch("read failed")
            /\ UNCHANGED << zip, filePaths, i >>
  /\ UNCHANGED << concVars, reqVars, disk, nanoids, j, paragraphs, pages,
                  convertedFiles, buffer, pendingSendFile, cleanupCalls,
                  cleanupArg, cleanupThrew, unlinkAttempts, decodeFailed >>

\* await zip.generateAsync(...); zipFilename uses nanoid().
ZipGenerate ==
  /\ pc = "zip"
  /\ Len(files) > 0
  /\ i > Len(files)
  /\ buffer' = zip
  /\ nanoids' = nanoids + 1
  /\ pc' = "zip_send"
  /\ UNCHANGED << concVars, reqVars, disk, i, j, filePaths, zip, paragraphs, pages,
                  convertedFiles, res, pendingSendFile, cleanupCalls,
                  cleanupArg, cleanupThrew, unlinkAttempts, readFailed,
                  decodeFailed, unhandled >>

ZipSend ==
  /\ pc = "zip_send"
  /\ res' = Send(res, ZipType, buffer)
  /\ pc' = "zip_cleanup"
  /\ UNCHANGED << concVars, reqVars, disk, nanoids, i, j, filePaths, zip, paragraphs,
                  pages, convertedFiles, buffer, pendingSendFile,
                  cleanupCalls, cleanupArg, cleanupThrew, unlinkAttempts,
                  readFailed, decodeFailed, unhandled >>

ZipCleanup == Cleanup("zip_cleanup", filePaths, "done")

----------------------------------------------------------------------------
(* POST /convert/pdf                                                       *)

PdfNoFiles == NoFiles("pdf")

BlankPage == [name |-> NoName, data |-> [src |-> 0, enc |-> "blank"]]

\* new PDFDocument, the two setHeader calls and doc.pipe(res).  The
\* document's header bytes flow into res at the first await of the loop,
\* which sends the response headers with the status 200.
PdfPipe ==
  /\ pc = "pdf"
  /\ Len(files) > 0
  /\ res' = [res EXCEPT !.contentType = PdfType,
                        !.calls = Append(@, "pipe"),
                        !.headersSent = TRUE,
                        !.wireStatus = res.statusCode,
                        !.wireType = PdfType]
  /\ nanoids' = nanoids + 1
  /\ pc' = "pdf_loop"
  /\ UNCHANGED << concVars, reqVars, disk, i, j, filePaths, zip, paragraphs, pages,
                  convertedFiles, buffer, pendingSendFile, cleanupCalls,
                  cleanupArg, cleanupThrew, unlinkAttempts, readFailed,
                  decodeFailed, unhandled >>

\* One iteration of `for (const file of req.files)`: doc.addPage() comes
\* first; sharp(...).metadata() or doc.image(...) may throw, which the
\* inner catch logs; filePaths.push follows in both cases.
PdfPage ==
  /\ pc = "pdf_loop"
  /\ i <= Len(files)
  /\ \E ok \in BOOLEAN :
       IF ok
       THEN /\ pages' = Append(pages, [name |-> files[i].originalname,
                                       data |-> disk[files[i].path]])
            /\ UNCHANGED decodeFailed
       ELSE /\ pages' = Append(pages, BlankPage)
            /\ decodeFailed' = decodeFailed \cup {i}
  /\ filePaths' = Append(filePaths, files[i].path)
  /\ i' = i + 1
  /\ UNCHANGED << concVars, pc, reqVars, disk, nanoids, j, zip, paragraphs,
                  convertedFiles, buffer, res, pendingSendFile, cleanupCalls,
                  cleanupArg, cleanupThrew, unlinkAttempts, readFailed,
                  unhandled >>

\* doc.end(): the document is finalised into the piped response; then
\* res.on("finish", ...) registers the cleanup.
PdfEnd ==
  /\ pc = "pdf_loop"
  /\ i > Len(files)
  /\ res' = [res EXCEPT !.body = pages]
  /\ pc' = "pdf_wait"
  /\ UNCHANGED << concVars, reqVars, disk, nanoids, i, j, filePaths, zip, paragraphs,
                  pages, convertedFiles, buffer, pendingSendFile,
                  cleanupCalls, cleanupArg, cleanupThrew, unlinkAttempts,
                  readFailed, decodeFailed, unhandled >>

\* The response emits "finish": the listener runs cleanupFiles(filePaths).
\* An exception of the listener is caught by nobody.
PdfFinish ==
  /\ pc = "pdf_wait"
  /\ \E failAt \in 0..Len(filePaths) :
       LET c == cleanupFiles(disk, filePaths, failAt) IN
       /\ disk' = c.disk
       /\ unlinkAttempts' = unlinkAttempts \o c.attempts
       /\ cleanupThrew' = c.threw
       /\ unhandled' = (unhandled \/ c.threw)
  /\ res' = [res EXCEPT !.ended = TRUE]
  /\ cleanupCalls' = cleanupCalls + 1
  /\ cleanupArg' = filePaths
  /\ pc' = "done"
  /\ UNCHANGED << concVars, reqVars, nanoids, i, j, filePaths, zip, paragraphs, pages,
                  convertedFiles, buffer, pendingSendFile, readFailed,
                  decodeFailed >>

\* The connection is closed before the response has finished: "finish" is
\* never emitted and the listener never runs.
PdfClose ==
  /\ pc = "pdf_wait"
  /\ pc' = "done"
  /\ UNCHANGED << concVars, reqVars, disk, nanoids, i, j, filePaths, zip, paragraphs,
                  pages, convertedFiles, buffer, res, pendingSendFile,
                  cleanupCalls, cleanupArg, cleanupThrew, unlinkAttempts,
                  readFailed, decodeFailed, unhandled >>

----------------------------------------------------------------------------
(* POST /convert/word                                                      *)

WordNoFiles == NoFiles("word")

\* One iteration of the loop: readFileSync and paragraphs.push inside the
\* inner try, filePaths.push after it.
WordRead ==
  /\ pc = "word"
  /\ i <= Len(files)
  /\ \E ok \in BOOLEAN :
       IF ok
       THEN /\ paragraphs' = Append(paragraphs,
                                    [name |-> files[i].originalname,
                                     data |-> disk[files[i].path]])
            /\ UNCHANGED readFailed
       ELSE /\ readFailed' = readFailed \cup {i}
            /\ UNCHANGED paragraphs
  /\ filePaths' = Append(filePaths, files[i].path)
  /\ i' = i + 1
  /\ UNCHANGED << concVars, pc, reqVars, disk, nanoids, j, zip, pages, convertedFiles,
                  buffer, res, pendingSendFile, cleanupCalls, cleanupArg,
                  cleanupThrew, unlinkAttempts, decodeFailed, unhandled >>

\* new Document({ ... children: paragraphs }); await Packer.toBuffer(doc)
WordPack ==
  /\ pc = "word"
  /\ Len(files) > 0
  /\ i > Len(files)
  /\ buffer' = paragraphs
  /\ pc' = "word_send"
  /\ UNCHANGED << concVars, reqVars, disk, nanoids, i, j, filePaths, zip, paragraphs,
                  pages, convertedFiles, res, pendingSendFile, cleanupCalls,
                  cleanupArg, cleanupThrew, unlinkAttempts, readFailed,
                  decodeFailed, unhandled >>

WordType ==
  << "application",
     "vnd.openxmlformats-officedocument.wordprocessingml.document" >>

WordSend ==
  /\ pc = "word_send"
  /\ res' = Send(res, WordType, buffer)
  /\ nanoids' = nanoids + 1
  /\ pc' = "word_cleanup"
  /\ UNCHANGED << concVars, reqVars, disk, i, j, filePaths, zip, paragraphs, pages,
                  convertedFiles, buffer, pendingSendFile, cleanupCalls,
                  cleanupArg, cleanupThrew, unlinkAttempts, readFailed,
                  decodeFailed, unhandled >>

WordCleanup == Cleanup("word_cleanup", filePaths, "done")

----------------------------------------------------------------------------
(* POST /convert/gif                                                       *)

GifNoFiles == NoFiles("gif")

\* filePaths = req.files.map(...); both branches encode filePaths[0] only.
GifEncode ==
  /\ pc = "gif"
  /\ Len(files) > 0
  /\ filePaths' = [k \in 1..Len(files) |-> files[k].path]
  /\ nanoids' = nanoids + 1
  /\ \E ok \in BOOLEAN :
       IF ok
       THEN /\ buffer' = << [name |-> files[1].originalname,
                             data |-> [src |-> disk[files[1].path].src,
                                       enc |-> "gif"]] >>
            /\ pc' = "gif_send"
            /\ UNCHANGED << res, unhandled, decodeFailed >>
       ELSE /\ decodeFailed' = decodeFailed \cup {1}
            /\ Catch("encoding failed")
            /\ UNCHANGED buffer
  /\ UNCHANGED << concVars, reqVars, disk, i, j, zip, paragraphs, pages,
                  convertedFiles, pendingSendFile, cleanupCalls, cleanupArg,
                  cleanupThrew, unlinkAttempts, readFailed >>

GifSend ==
  /\ pc = "gif_send"
  /\ res' = Send(res, GifType, buffer)
  /\ pc' = "gif_cleanup"
  /\ UNCHANGED << concVars, reqVars, disk, nanoids, i, j, filePaths, zip, paragraphs,
                  pages, convertedFiles, buffer, pendingSendFile,
                  cleanupCalls, cleanupArg, cleanupThrew, unlinkAttempts,
                  readFailed, decodeFailed, unhandled >>

GifCleanup == Cleanup("gif_cleanup", filePaths, "done")

----------------------------------------------------------------------------
(* POST /convert/image/:format                                             *)

\* `${path.parse(file.originalname).name}.${format}`
OutputFilename(originalname, fmt) == [base |-> originalname.base, ext |-> fmt]

\* path.join(uploadsDir, `${nanoid()}-${outputFilename}`)
OutputPath(id, outputFilename) == [id |-> id, name |-> outputFilename]

\* `image/${format}`
ImageType(fmt) == << "image", fmt >>

\* The format check comparing the raw parameter with the allowed set.
ImageUnsupportedCaseSensitive ==
  /\ pc = "image"
  /\ format \notin allowedFormats
  /\ res' = Json(res, 400, "Unsupported format")
  /\ pc' = "done"
  /\ UNCHANGED << concVars, reqVars, disk, nanoids, i, j, filePaths, zip, paragraphs,
                  pages, convertedFiles, buffer, pendingSendFile,
                  cleanupCalls, cleanupArg, cleanupThrew, unlinkAttempts,
                  readFailed, decodeFailed, unhandled >>

\* `if (!allowedFormats.includes(format.toLowerCase())) return 400`
ImageUnsupported ==
  /\ pc = "image"
  /\ toLowerCase(format) \notin allowedFormats
  /\ res' = Json(res, 400, "Unsupported format")
  /\ pc' = "done"
  /\ UNCHANGED << concVars, reqVars, disk, nanoids, i, j, filePaths, zip, paragraphs,
                  pages, convertedFiles, buffer, pendingSendFile,
                  cleanupCalls, cleanupArg, cleanupThrew, unlinkAttempts,
                  readFailed, decodeFailed, unhandled >>

ImageNoFiles ==
  /\ toLowerCase(format) \in allowedFormats
  /\ NoFiles("image")

\* filePaths = req.files.map(file => file.path); convertedFiles = []
ImageBegin ==
  /\ pc = "image"
  /\ toLowerCase(format) \in allowedFormats
  /\ Len(files) > 0
  /\ filePaths' = [k \in 1..Len(files) |-> files[k].path]
  /\ pc' = "image_convert"
  /\ UNCHANGED << concVars, reqVars, disk, nanoids, i, j, zip, paragraphs, pages,
                  convertedFiles, buffer, res, pendingSendFile, cleanupCalls,
                  cleanupArg, cleanupThrew, unlinkAttempts, readFailed,
                  decodeFailed, unhandled >>

\* One iteration of the conversion loop: outputPath takes a fresh nanoid;
\* sharp(file.path).toFormat(format).toFile(outputPath) writes the
\* artifact, encoded in the format sharp resolves the string to, or
\* throws, which the inner catch logs.
ImageConvert ==
  /\ pc = "image_convert"
  /\ i <= Len(files)
  /\ LET outputFilename == OutputFilename(files[i].originalname, format)
         outputPath == OutputPath(nanoids + 1, outputFilename)
     IN  \E ok \in BOOLEAN :
           IF ok
           THEN /\ disk' = Store(disk, outputPath,
                                 [src |-> disk[files[i].path].src,
                                  enc |-> toLowerCase(format)])
                /\ convertedFiles' =
                     Append(convertedFiles,
                            [originalName |-> files[i].originalname,
                             convertedName |-> outputFilename,
                             path |-> outputPath])
                /\ UNCHANGED decodeFailed
           ELSE /\ decodeFailed' = decodeFailed \cup {i}
                /\ UNCHANGED << disk, convertedFiles >>
  /\ nanoids' = nanoids + 1
  /\ i' = i + 1
  /\ UNCHANGED << concVars, pc, reqVars, j, filePaths, zip, paragraphs, pages, buffer,
                  res, pendingSendFile, cleanupCalls, cleanupArg,
                  cleanupThrew, unlinkAttempts, readFailed, unhandled >>

\* `if (convertedFiles.length === 0) return res.status(500).json(...)`
ImageNoneConverted ==
  /\ pc = "image_convert"
  /\ i > Len(files)
  /\ Len(convertedFiles) = 0
  /\ res' = Json(res, 500, "No files were successfully converted")
  /\ pc' = "done"
  /\ UNCHANGED << concVars, reqVars, disk, nanoids, i, j, filePaths, zip, paragraphs,
                  pages, convertedFiles, buffer, pendingSendFile,
                  cleanupCalls, cleanupArg, cleanupThrew, unlinkAttempts,
                  readFailed, decodeFailed, unhandled >>

\* Single file: the two setHeader calls and res.sendFile(file.path).
\* res.sendFile only starts the transfer: the file is looked up and read
\* by I/O callbacks that run after the handler's synchronous code.
ImageSendFile ==
  /\ pc = "image_convert"
  /\ i > Len(files)
  /\ Len(convertedFiles) = 1
  /\ res' = [res EXCEPT !.contentType = ImageType(format),
                        !.calls = Append(@, "sendFile")]
  /\ pendingSendFile' = convertedFiles[1].path
  /\ pc' = "image_cleanup_single"
  /\ UNCHANGED << concVars, reqVars, disk, nanoids, i, j, filePaths, zip, paragraphs,
                  pages, convertedFiles, buffer, cleanupCalls, cleanupArg,
                  cleanupThrew, unlinkAttempts, readFailed, decodeFailed,
                  unhandled >>

\* cleanupFiles([...filePaths, file.path]), run right after res.sendFile.
ImageCleanupSingle ==
  Cleanup("image_cleanup_single",
          Append(filePaths, convertedFiles[1].path), "done")

\* The I/O of the pending res.sendFile, after the handler has returned.
\* The file is streamed if it is still there and no response was written;
\* otherwise sendFile hands the error to next(), i.e. to the error
\* middleware, whose res.json throws when the headers were already sent.
SendFileIO ==
  /\ pc = "done"
  /\ pendingSendFile # NoPath
  /\ IF pendingSendFile \in DOMAIN disk /\ ~res.headersSent
     THEN res' = [res EXCEPT !.headersSent = TRUE,
                             !.ended = TRUE,
                             !.wireStatus = res.statusCode,
                             !.wireType = res.contentType,
                             !.body = << [name |-> pendingSendFile.name,
                                          data |-> disk[pendingSendFile]] >>]
     ELSE res' = ErrorMiddleware(res, "sendFile failed")
  /\ pendingSendFile' = NoPath
  /\ UNCHANGED << concVars, pc, reqVars, disk, nanoids, i, j, filePaths, zip,
                  paragraphs, pages, convertedFiles, buffer, cleanupCalls,
                  cleanupArg, cleanupThrew, unlinkAttempts, readFailed,
                  decodeFailed, unhandled >>

\* Several files: one iteration of convertedFiles.forEach.
ImageZipRead ==
  /\ pc = "image_convert"
  /\ i > Len(files)
  /\ Len(convertedFiles) > 1
  /\ j <= Len(convertedFiles)
  /\ \E ok \in BOOLEAN :
       IF ok
       THEN /\ zip' = ZipFile(zip, convertedFiles[j].convertedName,
                              disk[convertedFiles[j].path])
            /\ j' = j + 1
            /\ UNCHANGED << pc, res, unhandled, readFailed >>
       ELSE /\ readFailed' = readFailed \cup {j}
            /\ Catch("read failed")
            /\ UNCHANGED << zip, j >>
  /\ UNCHANGED << concVars, reqVars, disk, nanoids, i, filePaths, paragraphs, pages,
                  convertedFiles, buffer, pendingSendFile, cleanupCalls,
                  cleanupArg, cleanupThrew, unlinkAttempts, decodeFailed >>

ImageZipGenerate ==
  /\ pc = "image_convert"
  /\ i > Len(files)
  /\ Len(convertedFiles) > 1
  /\ j > Len(convertedFiles)
  /\ buffer' = zip
  /\ nanoids' = nanoids + 1
  /\ pc' = "image_zip_send"
  /\ UNCHANGED << concVars, reqVars, disk, i, j, filePaths, zip, paragraphs, pages,
                  convertedFiles, res, pendingSendFile, cleanupCalls,
                  cleanupArg, cleanupThrew, unlinkAttempts, readFailed,
                  decodeFailed, unhandled >>

ImageZipSend ==
  /\ pc = "image_zip_send"
  /\ res' = Send(res, ZipType, buffer)
  /\ pc' = "image_zip_cleanup"
  /\ UNCHANGED << concVars, reqVars, disk, nanoids, i, j, filePaths, zip, paragraphs,
                  pages, convertedFiles, buffer, pendingSendFile,
                  cleanupCalls, cleanupArg, cleanupThrew, unlinkAttempts,
                  readFailed, decodeFailed, unhandled >>

\* allPaths = [...filePaths, ...convertedFiles.map(f => f.path)]
ImageZipCleanup ==
  Cleanup("image_zip_cleanup",
          filePaths \o [k \in 1..Len(convertedFiles) |-> convertedFiles[k].path],
          "done")

----------------------------------------------------------------------------
Next ==
  \/ Upload
  \/ UploadTooMany
  \/ ZipNoFiles
  \/ ZipRead
  \/ ZipGenerate
  \/ ZipSend
  \/ ZipCleanup
  \/ PdfNoFiles
  \/ PdfPipe
  \/ PdfPage
  \/ PdfEnd
  \/ PdfFinish
  \/ PdfClose
  \/ WordNoFiles
  \/ WordRead
  \/ WordPack
  \/ WordSend
  \/ WordCleanup
  \/ GifNoFiles
  \/ GifEncode
  \/ GifSend
  \/ GifCleanup
  \/ ImageUnsupported
  \/ ImageNoFiles
  \/ ImageBegin
  \/ ImageConvert
  \/ ImageNoneConverted
  \/ ImageSendFile
  \/ ImageCleanupSingle
  \/ SendFileIO
  \/ ImageZipRead
  \/ ImageZipGenerate
  \/ ImageZipSend
  \/ ImageZipCleanup

Spec == Init /\ [][Next]_vars

\* The request has left its handler and no callback of it is pending.
Terminated == pc = "done" /\ pendingSendFile = NoPath

\* Paths of the request's uploaded input files.
InputPaths == { files[k].path : k \in 1..Len(files) }

\* Paths of the converted outputs the image route wrote.
ArtifactPaths == { convertedFiles[k].path : k \in 1..Len(convertedFiles) }

\* A success response was issued by res.send or res.sendFile.
SuccessIssued == "send" \in Range(res.calls) \/ "sendFile" \in Range(res.calls)

AllIndices == 1..Len(files)

----------------------------------------------------------------------------
(* Properties.                                                             *)

\* C1: once the request has terminated, on whatever exit path, none of its
\* input files and none of its converted artifacts is left in uploads/.
C1_NoFileRemains ==
  Terminated => (InputPaths \cup ArtifactPaths) \cap DOMAIN disk = {}

\* C2: every request that has terminated has called cleanupFiles exactly
\* once, whatever exit path it took.
C2_CleanupExactlyOnce ==
  Terminated => cleanupCalls = 1

\* C3: no file of the request is deleted before the response has reached
\* its terminal event; in particular the file a pending res.sendFile still
\* has to stream is in uploads/ until sendFile has finished.
C3_DeleteAfterResponse ==
  /\ ~res.ended => (InputPaths \cup ArtifactPaths) \subseteq DOMAIN disk
  /\ pendingSendFile # NoPath => pendingSendFile \in DOMAIN disk

\* C4: a call of cleanupFiles attempts the deletion of every path of its
\* list, also of those behind a path whose unlink throws.
C4_AttemptsEveryPath ==
  cleanupCalls > 0 => Range(cleanupArg) \subseteq Range(unlinkAttempts)

\* C5: when cleanupFiles throws after res.send / res.sendFile issued the
\* success response, no 500 JSON response is attempted, and the client
\* receives the success status and artifact.
C5_CleanupFailureHidden ==
  (cleanupThrew /\ SuccessIssued) =>
     /\ "json500" \notin Range(res.calls)
     /\ Terminated => /\ res.wireStatus = 200
                      /\ res.wireType # JsonMime
                      /\ res.error = ""

\* C6: the archive a zip request sends has exactly one entry per input
\* file, in input order, under the file's original name and with its
\* original bytes, also when original names repeat.
C6_ZipOneEntryPerFile ==
  (route = "zip" /\ res.wireType = ZipType) =>
     /\ Len(res.body) = Len(files)
     /\ \A k \in 1..Len(files) :
          k <= Len(res.body) =>
            res.body[k] = [name |-> files[k].originalname,
                           data |-> UploadedBytes(k)]

\* C7: a zip request one of whose reads failed ends with a 500 error and
\* no archive; an archive that is sent holds the bytes of every input file.
C7_ZipAllOrNothing ==
  (route = "zip" /\ Terminated) =>
     /\ readFailed # {} => /\ res.wireStatus = 500
                           /\ res.wireType # ZipType
                           /\ res.body = << >>
     /\ res.wireType = ZipType =>
          \A k \in AllIndices :
            \E e \in 1..Len(res.body) : res.body[e].data = UploadedBytes(k)

\* C8: the pdf document has as many pages as there are input files whose
\* decode and placement succeeded; a failed file contributes no page.
C8_PdfPageCount ==
  (route = "pdf" /\ pc \in {"pdf_wait", "done"} /\ Len(files) > 0) =>
     /\ Len(res.body) = Len(files) - Cardinality(decodeFailed)
     /\ \A e \in 1..Len(res.body) : res.body[e] # BlankPage

\* C9: a pdf request all of whose files fail to decode ends with a 500
\* error; no success header and no document is written.
C9_PdfNoValidImages ==
  (route = "pdf" /\ Terminated /\ Len(files) > 0
     /\ decodeFailed = AllIndices) =>
     /\ res.wireStatus = 500
     /\ res.wireType # PdfType
     /\ res.body = << >>

\* C10: the word document has exactly one paragraph per readable file; a
\* request none of whose files is readable ends with a 500 error and no
\* document.
C10_WordSkipOrFail ==
  (route = "word" /\ Terminated /\ Len(files) > 0) =>
     IF readFailed = AllIndices
     THEN /\ res.wireStatus = 500
          /\ res.wireType # WordType
     ELSE /\ res.wireType = WordType
          /\ Len(res.body) = Len(files) - Cardinality(readFailed)
          /\ \A k \in AllIndices \ readFailed :
               \E e \in 1..Len(res.body) : res.body[e].data = UploadedBytes(k)

\* Number of input files the image route converted successfully.
Converted == Len(files) - Cardinality(decodeFailed)

\* The artifact sharp writes for the k-th input file.
ConvertedEntry(k) ==
  [name |-> OutputFilename(files[k].originalname, format),
   data |-> [src |-> k, enc |-> toLowerCase(format)]]

\* Indices of the input files that converted, in input order.
RECURSIVE ConvertedIndices(_)
ConvertedIndices(n) ==
  IF n = 0 THEN << >>
  ELSE IF n \in decodeFailed THEN ConvertedIndices(n - 1)
       ELSE Append(ConvertedIndices(n - 1), n)

\* C11: with an allowed format the image route's outcome is decided by the
\* number s of converted files: s = 0 gives 500 and nothing streamed, s = 1
\* the single artifact as image/<format> under <base>.<format>, s >= 2 a
\* zip of exactly the s converted artifacts; failed files never abort.
C11_ImageOutcome ==
  (route = "image" /\ Terminated /\ Len(files) > 0
     /\ toLowerCase(format) \in allowedFormats) =>
     LET idx == ConvertedIndices(Len(files)) IN
     CASE Converted = 0 -> /\ res.wireStatus = 500
                           /\ res.body = << >>
       [] Converted = 1 -> /\ res.wireStatus = 200
                           /\ res.wireType = ImageType(format)
                           /\ res.body = << ConvertedEntry(idx[1]) >>
       [] OTHER -> /\ res.wireStatus = 200
                   /\ res.wireType = ZipType
                   /\ res.body = [k \in 1..Converted |-> ConvertedEntry(idx[k])]

\* C12: the animated output of a gif request has exactly one frame per
\* input file, frame k coming from file k.
C12_GifOneFramePerFile ==
  (route = "gif" /\ res.wireType = GifType) =>
     /\ Len(res.body) = Len(files)
     /\ \A k \in 1..Len(res.body) : res.body[k].data.src = k

\* C13: on the image route, for a request that the upload middleware let
\* through to the handler, a format outside the allowed set (compared
\* case-insensitively) is answered 400 "Unsupported format" before any
\* file is decoded and before any artifact is written; a format inside
\* the set, in any letter case, is never answered "Unsupported format".
C13_FormatCheck ==
  (route = "image" /\ multerError = "") =>
     /\ (toLowerCase(format) \notin allowedFormats /\ pc # "image") =>
          /\ pc = "done"
          /\ res.wireStatus = 400
          /\ res.error = "Unsupported format"
          /\ i = 1
          /\ decodeFailed = {}
          /\ convertedFiles = << >>
          /\ DOMAIN disk = InputPaths
          /\ nanoids = Len(files)
     /\ toLowerCase(format) \in allowedFormats =>
          res.error # "Unsupported format"

\* An unsupported format was rejected for a request that uploaded files.
C13_Witness ==
  /\ route = "image"
  /\ toLowerCase(format) \notin allowedFormats
  /\ Len(files) > 0
  /\ pc = "done"
  /\ res.wireStatus = 400
  /\ res.error = "Unsupported format"

\* No composer step has run: nothing was read, decoded, collected or
\* written, and no output header was set.
ComposerUntouched ==
  /\ i = 1
  /\ j = 1
  /\ filePaths = << >>
  /\ zip = << >>
  /\ paragraphs = << >>
  /\ pages = << >>
  /\ convertedFiles = << >>
  /\ buffer = << >>
  /\ readFailed = {}
  /\ decodeFailed = {}
  /\ ArtifactPaths \cap DOMAIN disk = {}
  /\ res.body = << >>
  /\ res.contentType \in { << >>, JsonMime }
  /\ "send" \notin Range(res.calls)
  /\ "sendFile" \notin Range(res.calls)
  /\ "pipe" \notin Range(res.calls)

\* C14: a request with zero files is answered 400 before any composer
\* step runs; a request with more files than the upload limit is answered
\* 400 by the upload boundary and no handler runs for it.
C14_RejectedBeforeComposer ==
  /\ (pc # "idle" /\ multerError = "" /\ Len(files) = 0) =>
        /\ pc \in Routes \cup {"done"}
        /\ ComposerUntouched
        /\ pc = "done" => res.wireStatus = 400
  /\ multerError # "" =>
        /\ pc = "done"
        /\ ComposerUntouched
        /\ files = << >>
        /\ res.wireStatus = 400
        /\ res.calls = << "json400" >>

\* A pdf request without files was answered 400.
C14_Witness ==
  /\ route = "pdf"
  /\ multerError = ""
  /\ Len(files) = 0
  /\ pc = "done"
  /\ res.wireStatus = 400
  /\ res.error = "No files uploaded"

\* C15: in the output of a zip, pdf, word or multi-file image request the
\* items stand in the order of the input files they come from.
C15_InputOrderKept ==
  res.wireType \in {ZipType, PdfType, WordType} =>
     \A e1, e2 \in 1..Len(res.body) :
        (e1 < e2 /\ res.body[e1].data.src > 0 /\ res.body[e2].data.src > 0)
           => res.body[e1].data.src < res.body[e2].data.src

\* Streaming: the success status is committed on the wire.
Streaming == res.headersSent /\ res.wireStatus = 200

\* Failed: the request ended with an error status on the wire.
Failed == Terminated /\ res.wireStatus >= 400

\* A streaming response carries no error status and no error body, also
\* after a later error made the handler call res.status(500).json.
StreamingStaysSuccess ==
  Streaming => res.error = ""

\* A failed request has written no success header and no output byte.
FailedWroteNoSuccess ==
  Failed => (res.wireType = JsonMime /\ res.body = << >>)

\* C16: once a request is streaming (success headers committed) no error
\* status or JSON error body is written to its response, and a request
\* that ends failed has written no success header and no output byte.
C16_StreamingOrFailed ==
  StreamingStaysSuccess /\ FailedWroteNoSuccess

----------------------------------------------------------------------------
(* Concurrent requests.  Each request runs the upload and the handler of   *)
(* its route on the shared uploads directory; a step is one synchronous    *)
(* run of the request between two awaits or I/O callbacks, so the steps    *)
(* of different requests interleave freely.  The zip route stands for the  *)
(* routes that only read their input files; the image route also writes    *)
(* artifacts.                                                              *)

ConcRoutes == {"zip", "image"}

\* Original names used by the concurrent requests: all of them upload
\* files of the same name.
ConcNames == { [base |-> "a", ext |-> "jpg"] }

\* The :format parameter of the concurrent image requests.
ConcFormat == "png"

\* The file-system calls of request r with operation op on the given
\* paths that hit a file another request created.
Calls(r, op, paths) ==
  { [req |-> r, op |-> op, path |-> p] :
      p \in { q \in paths : q \in DOMAIN created /\ created[q] # r } }

\* The first k elements of a sequence.
Prefix(s, k) == [n \in 1..k |-> s[n]]

\* A request arrives: route and files are the client's choice.  Requests
\* are numbered in the order of their arrival.
ConcArrive(r) ==
  /\ cpc[r] = "idle"
  /\ \A q \in Requests : q < r => cpc[q] # "idle"
  /\ \E rt \in ConcRoutes, names \in SeqsUpTo(ConcNames, MaxConcFiles) :
       /\ Len(names) > 0
       /\ croute' = [croute EXCEPT ![r] = rt]
       /\ cnames' = [cnames EXCEPT ![r] = names]
  /\ cpc' = [cpc EXCEPT ![r] = "upload"]
  /\ UNCHANGED << mainVars, cfiles, cconv, ci, cpending, cdisk, cids,
                  created, foreignCalls >>

\* multer stores the next file of the request under uniqueName; after
\* the last one the route handler is entered.
ConcStore(r) ==
  /\ cpc[r] = "upload"
  /\ cids < MaxIds
  /\ LET k == Len(cfiles[r]) + 1
         p == uniqueName(cids + 1, cnames[r][k])
     IN  /\ cfiles' = [cfiles EXCEPT ![r] = Append(@, p)]
         /\ cdisk' = Store(cdisk, p, r)
         /\ created' = IF p \in DOMAIN created THEN created
                       ELSE Store(created, p, r)
         /\ foreignCalls' = foreignCalls \cup Calls(r, "write", {p})
         /\ cpc' = [cpc EXCEPT ![r] =
                      IF k = Len(cnames[r]) THEN croute[r] ELSE "upload"]
  /\ cids' = cids + 1
  /\ UNCHANGED << mainVars, croute, cnames, cconv, ci, cpending >>

\* req.files.forEach of the zip route: fs.readFileSync of every input
\* file in one run; failAt is the position whose read throws (0: none).
ConcZipRead(r) ==
  /\ cpc[r] = "zip"
  /\ \E failAt \in 0..Len(cfiles[r]) :
       LET n == IF failAt = 0 THEN Len(cfiles[r]) ELSE failAt IN
       /\ foreignCalls' = foreignCalls \cup
                         Calls(r, "read", Range(Prefix(cfiles[r], n)))
       /\ cpc' = [cpc EXCEPT ![r] =
                    IF failAt = 0 THEN "zip_cleanup" ELSE "done"]
  /\ UNCHANGED << mainVars, croute, cnames, cfiles, cconv, ci, cpending,
                  cdisk, cids, created >>

\* cleanupFiles(paths) of request r on the shared directory.
ConcCleanup(r, at, paths, then) ==
  /\ cpc[r] = at
  /\ \E failAt \in 0..Len(paths) :
       LET c == cleanupFiles(cdisk, paths, failAt) IN
       /\ cdisk' = c.disk
       /\ foreignCalls' = foreignCalls \cup Calls(r, "unlink", Range(c.attempts))
       /\ cpc' = [cpc EXCEPT ![r] = IF c.threw THEN "done" ELSE then]
  /\ UNCHANGED << mainVars, croute, cnames, cfiles, cconv, ci, cids,
                  created >>

\* res.send and cleanupFiles(filePaths) of the zip route.
ConcZipCleanup(r) ==
  /\ ConcCleanup(r, "zip_cleanup", cfiles[r], "done")
  /\ UNCHANGED cpending

\* One iteration of the image route's conversion loop: sharp reads the
\* input file and writes the artifact to OutputPath with a fresh nanoid,
\* or throws.
ConcConvert(r) ==
  /\ cpc[r] = "image"
  /\ ci[r] <= Len(cfiles[r])
  /\ cids < MaxIds
  /\ LET in == cfiles[r][ci[r]]
         out == OutputPath(cids + 1, OutputFilename(in.name, ConcFormat))
     IN  \E ok \in BOOLEAN :
           IF ok
           THEN /\ cdisk' = Store(cdisk, out, r)
                /\ created' = IF out \in DOMAIN created THEN created
                              ELSE Store(created, out, r)
                /\ cconv' = [cconv EXCEPT ![r] = Append(@, out)]
                /\ foreignCalls' = foreignCalls \cup Calls(r, "read", {in})
                                          \cup Calls(r, "write", {out})
           ELSE /\ foreignCalls' = foreignCalls \cup Calls(r, "read", {in})
                /\ UNCHANGED << cdisk, created, cconv >>
  /\ cids' = cids + 1
  /\ ci' = [ci EXCEPT ![r] = @ + 1]
  /\ UNCHANGED << mainVars, cpc, croute, cnames, cfiles, cpending >>

\* The zero-converted return of the image route.
ConcNoneConverted(r) ==
  /\ cpc[r] = "image"
  /\ ci[r] > Len(cfiles[r])
  /\ Len(cconv[r]) = 0
  /\ cpc' = [cpc EXCEPT ![r] = "done"]
  /\ UNCHANGED << mainVars, croute, cnames, cfiles, cconv, ci, cpending,
                  cdisk, cids, created, foreignCalls >>

\* Single-file branch: res.sendFile(file.path) and, in the same run,
\* cleanupFiles([...filePaths, file.path]).
ConcSendFile(r) ==
  /\ ci[r] > Len(cfiles[r])
  /\ Len(cconv[r]) = 1
  /\ ConcCleanup(r, "image", Append(cfiles[r], cconv[r][1]), "done")
  /\ cpending' = [cpending EXCEPT ![r] = cconv[r][1]]

\* The I/O of the pending res.sendFile: it looks the file up and reads it.
ConcSendFileIO(r) ==
  /\ cpc[r] = "done"
  /\ cpending[r] # NoPath
  /\ foreignCalls' = foreignCalls \cup Calls(r, "read", {cpending[r]})
  /\ cpending' = [cpending EXCEPT ![r] = NoPath]
  /\ UNCHANGED << mainVars, cpc, croute, cnames, cfiles, cconv, ci, cdisk,
                  cids, created >>

\* Multi-file branch: convertedFiles.forEach reads every artifact in one
\* run; failAt is the position whose read throws (0: none).
ConcImageZipRead(r) ==
  /\ cpc[r] = "image"
  /\ ci[r] > Len(cfiles[r])
  /\ Len(cconv[r]) > 1
  /\ \E failAt \in 0..Len(cconv[r]) :
       LET n == IF failAt = 0 THEN Len(cconv[r]) ELSE failAt IN
       /\ foreignCalls' = foreignCalls \cup
                         Calls(r, "read", Range(Prefix(cconv[r], n)))
       /\ cpc' = [cpc EXCEPT ![r] =
                    IF failAt = 0 THEN "image_zip_cleanup" ELSE "done"]
  /\ UNCHANGED << mainVars, croute, cnames, cfiles, cconv, ci, cpending,
                  cdisk, cids, created >>

\* res.send and cleanupFiles(allPaths) of the multi-file branch.
ConcImageZipCleanup(r) ==
  /\ ConcCleanup(r, "image_zip_cleanup", cfiles[r] \o cconv[r], "done")
  /\ UNCHANGED cpending

NextConc ==
  \E r \in Requests :
    \/ ConcArrive(r)
    \/ ConcStore(r)
    \/ ConcZipRead(r)
    \/ ConcZipCleanup(r)
    \/ ConcConvert(r)
    \/ ConcNoneConverted(r)
    \/ ConcSendFile(r)
    \/ ConcSendFileIO(r)
    \/ ConcImageZipRead(r)
    \/ ConcImageZipCleanup(r)

SpecConc == Init /\ [][NextConc]_vars

\* C18: whatever the interleaving of concurrent requests, every file a
\* request reads, writes or deletes in uploads/ was created by that
\* request, and no file on disk was overwritten by another request.
C18_NoForeignAccess ==
  /\ foreignCalls = {}
  /\ \A p \in DOMAIN cdisk : cdisk[p] = created[p]

\* Two image requests uploading a file of the same original name have
\* both finished, the second having uploaded while the first was
\* converting, and each has written and deleted an artifact.
C18_Witness ==
  /\ \A r \in {1, 2} :
       /\ croute[r] = "image"
       /\ cpc[r] = "done"
       /\ cpending[r] = NoPath
       /\ Len(cconv[r]) > 0
       /\ cconv[r][1] \notin DOMAIN cdisk
  /\ cnames[1] = cnames[2]
  /\ cfiles[1][1].id < cfiles[2][1].id
  /\ cfiles[2][1].id < cconv[1][1].id

\* C19: a request that reached a route handler has, once terminated, made
\* exactly one response-writing call (res.send, res.sendFile, doc.pipe or
\* res.status(...).json): never a second one and never none.
C19_ExactlyOneResponse ==
  (Terminated /\ multerError = "") => Len(res.calls) = 1

\* C20: on the image route the format string used for the output file
\* extension and for the Content-Type image/<format> is a member of the
\* allowed set, i.e. the validated lower-case value.
C20_NormalisedFormatUsed ==
  (route = "image" /\ toLowerCase(format) \in allowedFormats) =>
     /\ \A k \in 1..Len(convertedFiles) :
          /\ convertedFiles[k].convertedName.ext \in allowedFormats
          /\ convertedFiles[k].path.name.ext \in allowedFormats
     /\ (Len(res.contentType) = 2 /\ res.contentType[1] = "image") =>
          res.contentType[2] \in allowedFormats

====
